---- MODULE Spec2Model ----
(***************************************************************************)
(* Request plumbing of the two front-ends of the SAM 3D Objects wrapper:   *)
(* the Gradio UI (app.py, function process) and the RunPod serverless      *)
(* handler (handler.py, function handler).  Each front-end is a Python     *)
(* module with its own module-global `model`; the external collaborators   *)
(* (Inference, rembg, PIL, uuid, the file system) are the environment:     *)
(* every call to one of them either returns a value drawn from a small set *)
(* or raises.  Every call is appended to the per-request call log `calls`. *)
(***************************************************************************)
EXTENDS Integers, Sequences, FiniteSets, TLC

\* ------------------------------------------------------------------ bounds
\* longest PLY payload (in bytes) that save_ply writes
MaxBytes == 3
\* number of requests of a front-end that draw a run id from uuid.uuid4()
MaxRuns == 2
\* the same number when the two front-ends are run side by side
MaxPairRuns == 1

\* ------------------------------------------------------------- value space
Lanes == {"app", "handler"}

\* Python None for the module global `model`; loaded objects are 1, 2, ...
None == 0

\* the first bytes of a PLY file: the magic "ply\n", repeated to any length
PlyMagic == << 112, 108, 121, 10 >>
PlyByte(i) == PlyMagic[((i - 1) % 4) + 1]

\* the byte strings save_ply may write: a PLY header cut at any length up to
\* MaxBytes
PlyPayloads == { [i \in 1..n |-> PlyByte(i)] : n \in 0..MaxBytes }

\* "no such file" in the file-system map
NoFile == <<-1>>

RunIds == 1..MaxRuns

\* ------------------------------------------------------------------ base64
Alphabet ==
  << "A","B","C","D","E","F","G","H","I","J","K","L","M","N","O","P",
     "Q","R","S","T","U","V","W","X","Y","Z","a","b","c","d","e","f",
     "g","h","i","j","k","l","m","n","o","p","q","r","s","t","u","v",
     "w","x","y","z","0","1","2","3","4","5","6","7","8","9","+","/" >>

Pad == "="

B64Char(n) == Alphabet[n + 1]

B64Index(c) == (CHOOSE i \in 1..64 : Alphabet[i] = c) - 1

IsB64Char(c) == \E i \in 1..64 : Alphabet[i] = c

\* fault variant of b64encode: a trailing group of one or two bytes is lost
RECURSIVE b64encode_whole_groups(_)
b64encode_whole_groups(b) ==
  IF Len(b) < 3 THEN <<>>
  ELSE
    LET n == b[1] * 65536 + b[2] * 256 + b[3]
    IN  << B64Char(n \div 262144), B64Char((n \div 4096) % 64),
           B64Char((n \div 64) % 64), B64Char(n % 64) >>
        \o b64encode_whole_groups(SubSeq(b, 4, Len(b)))

\* base64.b64encode(b).decode('utf-8'): the text as a sequence of characters
RECURSIVE b64encode(_)
b64encode(b) ==
  IF Len(b) = 0 THEN <<>>
  ELSE IF Len(b) = 1 THEN
    LET n == b[1] * 65536
    IN  << B64Char(n \div 262144), B64Char((n \div 4096) % 64), Pad, Pad >>
  ELSE IF Len(b) = 2 THEN
    LET n == b[1] * 65536 + b[2] * 256
    IN  << B64Char(n \div 262144), B64Char((n \div 4096) % 64),
           B64Char((n \div 64) % 64), Pad >>
  ELSE
    LET n == b[1] * 65536 + b[2] * 256 + b[3]
    IN  << B64Char(n \div 262144), B64Char((n \div 4096) % 64),
           B64Char((n \div 64) % 64), B64Char(n % 64) >>
        \o b64encode(SubSeq(b, 4, Len(b)))

\* the text is well-formed base64: whole quads, padding only at the very end
RECURSIVE B64WellFormed(_)
B64WellFormed(s) ==
  IF Len(s) = 0 THEN TRUE
  ELSE IF Len(s) < 4 THEN FALSE
  ELSE /\ IsB64Char(s[1]) /\ IsB64Char(s[2])
       /\ \/ IsB64Char(s[3]) /\ IsB64Char(s[4]) /\ B64WellFormed(SubSeq(s, 5, Len(s)))
          \/ IsB64Char(s[3]) /\ s[4] = Pad /\ Len(s) = 4
          \/ s[3] = Pad /\ s[4] = Pad /\ Len(s) = 4

\* base64.b64decode(s) for well-formed s
RECURSIVE b64decode(_)
b64decode(s) ==
  IF Len(s) = 0 THEN <<>>
  ELSE IF s[3] = Pad THEN
    LET n == B64Index(s[1]) * 262144 + B64Index(s[2]) * 4096
    IN  << n \div 65536 >>
  ELSE IF s[4] = Pad THEN
    LET n == B64Index(s[1]) * 262144 + B64Index(s[2]) * 4096 + B64Index(s[3]) * 64
    IN  << n \div 65536, (n \div 256) % 256 >>
  ELSE
    LET n == B64Index(s[1]) * 262144 + B64Index(s[2]) * 4096
             + B64Index(s[3]) * 64 + B64Index(s[4])
    IN  << n \div 65536, (n \div 256) % 256, n % 256 >>
        \o b64decode(SubSeq(s, 5, Len(s)))

\* ------------------------------------------------------------------ images
\* A PIL image: its mode, one colour sample and one alpha sample.
RGBImage == [mode |-> "RGB", rgb |-> 10, a |-> 255]
RGBAImage == [mode |-> "RGBA", rgb |-> 20, a |-> 128]
NoneImage == [mode |-> "None", rgb |-> 0, a |-> 0]
Images == {RGBImage, RGBAImage}

\* the encoded file of an image: mode byte, colour byte, alpha byte if any
ImageFile(img) ==
  IF img.mode = "RGB" THEN <<0, img.rgb>> ELSE <<1, img.rgb, img.a>>

\* Image.open(io.BytesIO(b)) recognises the file or raises
CanOpen(b) ==
  \/ Len(b) = 2 /\ b[1] = 0
  \/ Len(b) = 3 /\ b[1] = 1

Image_open(b) ==
  IF b[1] = 0 THEN [mode |-> "RGB", rgb |-> b[2], a |-> 255]
  ELSE [mode |-> "RGBA", rgb |-> b[2], a |-> b[3]]

\* input_image.convert("RGB"): the alpha channel is dropped
convert_RGB(img) == [mode |-> "RGB", rgb |-> img.rgb, a |-> 255]

\* np.array(img).astype(np.uint8)
to_uint8_array(img) == << img.rgb % 256 >>

\* alpha values rembg.remove may produce for the single pixel
Alphas == {0, 255}

\* rembg_output.split()[-1] ; np.array(mask_pil) > 0
mask_of(rembg_output) == << rembg_output.a > 0 >>

\* f"output_{run_id}.ply" and os.path.abspath of it
output_ply_name_of(run_id) == [prefix |-> "output_", run_id |-> run_id, suffix |-> ".ply"]
abspath(name) == [dir |-> "cwd", name |-> name]
NonePath == [dir |-> "None", name |-> [prefix |-> "", run_id |-> 0, suffix |-> ""]]

\* ------------------------------------------------------------------- state
VARIABLES
  program,      \* which front-end this process runs: "app" or "handler"
  model,        \* [Lanes -> None or object id]: the module global `model`
  Inference,    \* [Lanes -> BOOLEAN]: FALSE when the startup import left Inference = None
  pc,           \* [Lanes -> label]: position of the request being handled
  job,          \* the job object of the current handler request
  loc,          \* [Lanes -> record]: local variables of the current request
  ret,          \* [Lanes -> record]: how the last request left the function
  calls,        \* [Lanes -> Seq(call)]: calls made by the current request
  files,        \* [Lanes -> [RunIds -> bytes or NoFile]]: output files on disk
  uuid_count,   \* [Lanes -> Nat]: run ids handed out so far by uuid.uuid4()
  constructed,  \* [Lanes -> Nat]: completed Inference(...) constructions
  load_failed   \* [Lanes -> BOOLEAN]: some load_model call of this process raised

vars == << program, model, Inference, pc, job, loc, ret, calls, files, uuid_count, constructed, load_failed >>

NoLocals ==
  [ current_model |-> None, image_data |-> <<>>, input_image |-> NoneImage,
    run_id |-> 0, input_image_rgb |-> NoneImage, image_np |-> <<>>,
    mask_np |-> <<>>, output |-> 0, ply_content |-> <<>>, ply_base64 |-> <<>>,
    exc |-> "" ]

NoResult == [kind |-> "none", exc |-> "", val |-> <<>>]
Returned(v) == [kind |-> "return", exc |-> "", val |-> v]
Raised(e) == [kind |-> "raise", exc |-> e, val |-> <<>>]

Call(fn, arg, exc, out) == [fn |-> fn, arg |-> arg, exc |-> exc, out |-> out]

\* job objects: job['input'] may be absent, None, a string or a dict
NoInput == [kind |-> "absent", has_image |-> FALSE, image |-> <<>>]
JobImages ==
  { b64encode(ImageFile(img)) : img \in Images }
    \cup { b64encode(<<9>>), <<"A">> }
Jobs ==
  { [has_input |-> FALSE, input |-> NoInput],
    [has_input |-> TRUE, input |-> [kind |-> "null", has_image |-> FALSE, image |-> <<>>]],
    [has_input |-> TRUE, input |-> [kind |-> "str", has_image |-> FALSE, image |-> <<>>]],
    [has_input |-> TRUE, input |-> [kind |-> "str", has_image |-> TRUE, image |-> <<>>]],
    [has_input |-> TRUE, input |-> [kind |-> "dict", has_image |-> FALSE, image |-> <<>>]] }
    \cup { [has_input |-> TRUE, input |-> [kind |-> "dict", has_image |-> TRUE, image |-> s]]
             : s \in JobImages }

NoJob == [has_input |-> FALSE, input |-> NoInput]

Init ==
  /\ program \in Lanes
  /\ model = [l \in Lanes |-> None]
  /\ Inference \in [Lanes -> BOOLEAN]
  /\ pc = [l \in Lanes |-> "idle"]
  /\ job = NoJob
  /\ loc = [l \in Lanes |-> NoLocals]
  /\ ret = [l \in Lanes |-> NoResult]
  /\ calls = [l \in Lanes |-> <<>>]
  /\ files = [l \in Lanes |-> [r \in RunIds |-> NoFile]]
  /\ uuid_count = [l \in Lanes |-> 0]
  /\ constructed = [l \in Lanes |-> 0]
  /\ load_failed = [l \in Lanes |-> FALSE]

\* A process runs one of the two front-ends.  For comparing them, the two
\* processes may also be run side by side (program = "pair"); they share no
\* state.  Requests are handled one at a time: a request is accepted when
\* the previous one has left the function.
RunCap == IF program = "pair" THEN MaxPairRuns ELSE MaxRuns

Accepting(l) ==
  /\ program \in {l, "pair"}
  /\ \A k \in Lanes : pc[k] \in {"idle", "done"}
  /\ uuid_count[l] < RunCap

\* ------------------------------------------------------------- handler.py
\* fault variant of the validation: the 'image' key is not looked for
handler_has_image_unchecked(input) == TRUE

\* line 92: 'image' in job_input
handler_has_image(input) == input.has_image

\* handler(job), lines 87-93: job['input'] and the input validation, both
\* outside the try block
handler_entry(j) ==
  /\ Accepting("handler")
  /\ job' = j
  /\ loc' = [loc EXCEPT !["handler"] = NoLocals]
  /\ calls' = [calls EXCEPT !["handler"] = <<>>]
  /\ IF ~j.has_input
       THEN /\ ret' = [ret EXCEPT !["handler"] = Raised("KeyError")]
            /\ pc' = [pc EXCEPT !["handler"] = "done"]
     ELSE IF j.input.kind = "null"
       THEN /\ ret' = [ret EXCEPT !["handler"] = Raised("TypeError")]
            /\ pc' = [pc EXCEPT !["handler"] = "done"]
     ELSE IF ~handler_has_image(j.input)
       THEN /\ ret' = [ret EXCEPT !["handler"] = Returned([error |-> "No image provided"])]
            /\ pc' = [pc EXCEPT !["handler"] = "done"]
     ELSE /\ ret' = [ret EXCEPT !["handler"] = NoResult]
          /\ pc' = [pc EXCEPT !["handler"] = "load"]
  /\ UNCHANGED << program, model, Inference, files, uuid_count, constructed, load_failed >>

\* fault variant of load_model: the `if model is None` guard is missing
handler_load_model_unguarded(m, inf, n) ==
  IF ~inf
    THEN { [exc |-> "ImportError", ctor |-> "no", model |-> m, value |-> None] }
  ELSE { [exc |-> "FileNotFoundError", ctor |-> "no", model |-> m, value |-> None],
         [exc |-> "RuntimeError", ctor |-> "raise", model |-> m, value |-> None],
         [exc |-> "", ctor |-> "ok", model |-> n + 1, value |-> n + 1] }

\* load_model() of handler.py, lines 68-83: what one call can do, given the
\* global `model` m, whether Inference was imported, and the number n of
\* objects constructed so far.  ctor tells whether Inference(...) was called.
handler_load_model_outcomes(m, inf, n) ==
  IF m # None
    THEN { [exc |-> "", ctor |-> "no", model |-> m, value |-> m] }
  ELSE IF ~inf
    THEN { [exc |-> "ImportError", ctor |-> "no", model |-> m, value |-> None] }
  ELSE { [exc |-> "FileNotFoundError", ctor |-> "no", model |-> m, value |-> None],
         [exc |-> "RuntimeError", ctor |-> "raise", model |-> m, value |-> None],
         [exc |-> "", ctor |-> "ok", model |-> n + 1, value |-> n + 1] }

\* the log entry of one load_model call: it reads the global m
LoadLog(m, o) == << Call("load_model", <<m>>, o.exc, o.value) >>

\* line 96: current_model = load_model()
handler_load_model ==
  /\ pc["handler"] = "load"
  /\ \E o \in handler_load_model_outcomes(model["handler"], Inference["handler"],
                                          constructed["handler"]) :
       /\ calls' = [calls EXCEPT !["handler"] = @ \o LoadLog(model["handler"], o)]
       /\ model' = [model EXCEPT !["handler"] = o.model]
       /\ constructed' = [constructed EXCEPT !["handler"] =
                            IF o.ctor = "ok" THEN @ + 1 ELSE @]
       /\ load_failed' = [load_failed EXCEPT !["handler"] = @ \/ o.exc # ""]
       /\ IF o.exc = ""
            THEN /\ loc' = [loc EXCEPT !["handler"].current_model = o.value]
                 /\ pc' = [pc EXCEPT !["handler"] = "decode"]
            ELSE /\ loc' = [loc EXCEPT !["handler"].exc = o.exc]
                 /\ pc' = [pc EXCEPT !["handler"] = "except"]
  /\ UNCHANGED << program, Inference, job, ret, files, uuid_count >>

\* line 99: image_data = base64.b64decode(job_input['image'])
handler_decode ==
  /\ pc["handler"] = "decode"
  /\ IF job.input.kind # "dict"
       THEN /\ loc' = [loc EXCEPT !["handler"].exc = "TypeError"]
            /\ pc' = [pc EXCEPT !["handler"] = "except"]
            /\ UNCHANGED calls
     ELSE IF ~B64WellFormed(job.input.image)
       THEN /\ calls' = [calls EXCEPT !["handler"] =
                           Append(@, Call("b64decode", job.input.image, "binascii.Error", <<>>))]
            /\ loc' = [loc EXCEPT !["handler"].exc = "binascii.Error"]
            /\ pc' = [pc EXCEPT !["handler"] = "except"]
     ELSE LET d == b64decode(job.input.image)
          IN  /\ calls' = [calls EXCEPT !["handler"] =
                             Append(@, Call("b64decode", job.input.image, "", d))]
              /\ loc' = [loc EXCEPT !["handler"].image_data = d]
              /\ pc' = [pc EXCEPT !["handler"] = "open"]
  /\ UNCHANGED << program, model, Inference, job, ret, files, uuid_count, constructed, load_failed >>

\* line 100: input_image = Image.open(io.BytesIO(image_data))
handler_open ==
  /\ pc["handler"] = "open"
  /\ LET d == loc["handler"].image_data
     IN  IF CanOpen(d)
           THEN /\ calls' = [calls EXCEPT !["handler"] =
                               Append(@, Call("Image.open", d, "", Image_open(d)))]
                /\ loc' = [loc EXCEPT !["handler"].input_image = Image_open(d)]
                /\ pc' = [pc EXCEPT !["handler"] = "uuid"]
           ELSE /\ calls' = [calls EXCEPT !["handler"] =
                               Append(@, Call("Image.open", d, "UnidentifiedImageError", NoneImage))]
                /\ loc' = [loc EXCEPT !["handler"].exc = "UnidentifiedImageError"]
                /\ pc' = [pc EXCEPT !["handler"] = "except"]
  /\ UNCHANGED << program, model, Inference, job, ret, files, uuid_count, constructed, load_failed >>

\* line 103: run_id = str(uuid.uuid4()), a value never handed out before
handler_uuid ==
  /\ pc["handler"] = "uuid"
  /\ LET r == uuid_count["handler"] + 1
     IN  /\ uuid_count' = [uuid_count EXCEPT !["handler"] = r]
         /\ calls' = [calls EXCEPT !["handler"] = Append(@, Call("uuid4", <<>>, "", r))]
         /\ loc' = [loc EXCEPT !["handler"].run_id = r]
  /\ pc' = [pc EXCEPT !["handler"] = "convert"]
  /\ UNCHANGED << program, model, Inference, job, ret, files, constructed, load_failed >>

\* lines 106-111: the image is converted unless it already is RGB
handler_needs_convert(img) == img.mode # "RGB"

handler_convert ==
  /\ pc["handler"] = "convert"
  /\ LET img == loc["handler"].input_image
     IN  IF handler_needs_convert(img)
           THEN \/ /\ calls' = [calls EXCEPT !["handler"] =
                                  Append(@, Call("convert", <<img, "RGB">>, "", convert_RGB(img)))]
                   /\ loc' = [loc EXCEPT !["handler"].input_image_rgb = convert_RGB(img),
                                         !["handler"].image_np = to_uint8_array(convert_RGB(img))]
                   /\ pc' = [pc EXCEPT !["handler"] = "rembg"]
                \/ /\ calls' = [calls EXCEPT !["handler"] =
                                  Append(@, Call("convert", <<img, "RGB">>, "OSError", NoneImage))]
                   /\ loc' = [loc EXCEPT !["handler"].exc = "OSError"]
                   /\ pc' = [pc EXCEPT !["handler"] = "except"]
           ELSE /\ loc' = [loc EXCEPT !["handler"].input_image_rgb = img,
                                      !["handler"].image_np = to_uint8_array(img)]
                /\ pc' = [pc EXCEPT !["handler"] = "rembg"]
                /\ UNCHANGED calls
  /\ UNCHANGED << program, model, Inference, job, ret, files, uuid_count, constructed, load_failed >>

\* lines 115-117: rembg.remove, alpha channel, boolean mask
handler_rembg ==
  /\ pc["handler"] = "rembg"
  /\ LET img == loc["handler"].input_image_rgb
     IN  \/ \E a \in Alphas :
              LET out == [mode |-> "RGBA", rgb |-> img.rgb, a |-> a]
              IN  /\ calls' = [calls EXCEPT !["handler"] =
                                 Append(@, Call("rembg.remove", img, "", out))]
                  /\ loc' = [loc EXCEPT !["handler"].mask_np = mask_of(out)]
                  /\ pc' = [pc EXCEPT !["handler"] = "infer"]
         \/ /\ calls' = [calls EXCEPT !["handler"] =
                           Append(@, Call("rembg.remove", img, "RuntimeError", NoneImage))]
            /\ loc' = [loc EXCEPT !["handler"].exc = "RuntimeError"]
            /\ pc' = [pc EXCEPT !["handler"] = "except"]
  /\ UNCHANGED << program, model, Inference, job, ret, files, uuid_count, constructed, load_failed >>

\* line 120: output = current_model(image_np, mask_np, seed=42)
handler_seed == 42

\* fault variant of the inference call: the seed is left at 0
handler_model_args_unseeded(l) ==
  [model |-> l.current_model, image |-> l.image_np, mask |-> l.mask_np, seed |-> 0]

handler_model_args(l) ==
  [model |-> l.current_model, image |-> l.image_np, mask |-> l.mask_np, seed |-> handler_seed]

handler_infer ==
  /\ pc["handler"] = "infer"
  /\ LET args == handler_model_args(loc["handler"])
     IN  \/ /\ calls' = [calls EXCEPT !["handler"] = Append(@, Call("model", args, "", 1))]
            /\ loc' = [loc EXCEPT !["handler"].output = 1]
            /\ pc' = [pc EXCEPT !["handler"] = "save"]
         \/ /\ calls' = [calls EXCEPT !["handler"] =
                           Append(@, Call("model", args, "RuntimeError", 0))]
            /\ loc' = [loc EXCEPT !["handler"].exc = "RuntimeError"]
            /\ pc' = [pc EXCEPT !["handler"] = "except"]
  /\ UNCHANGED << program, model, Inference, job, ret, files, uuid_count, constructed, load_failed >>

\* lines 123-127: output["gs"].save_ply(output_ply_path).  save_ply writes
\* the payload, or raises before creating the file, or raises after
\* creating it.
handler_save ==
  /\ pc["handler"] = "save"
  /\ LET r == loc["handler"].run_id
         path == abspath(output_ply_name_of(r))
     IN  \/ \E content \in PlyPayloads :
              /\ files' = [files EXCEPT !["handler"][r] = content]
              /\ calls' = [calls EXCEPT !["handler"] =
                             Append(@, Call("save_ply", path, "", content))]
              /\ pc' = [pc EXCEPT !["handler"] = "read"]
              /\ UNCHANGED loc
         \/ /\ calls' = [calls EXCEPT !["handler"] =
                           Append(@, Call("save_ply", path, "OSError", NoFile))]
            /\ loc' = [loc EXCEPT !["handler"].exc = "OSError"]
            /\ pc' = [pc EXCEPT !["handler"] = "except"]
            /\ UNCHANGED files
         \/ /\ files' = [files EXCEPT !["handler"][r] = <<>>]
            /\ calls' = [calls EXCEPT !["handler"] =
                           Append(@, Call("save_ply", path, "OSError", <<>>))]
            /\ loc' = [loc EXCEPT !["handler"].exc = "OSError"]
            /\ pc' = [pc EXCEPT !["handler"] = "except"]
  /\ UNCHANGED << program, model, Inference, job, ret, uuid_count, constructed, load_failed >>

\* lines 130-132: read the file back and base64-encode it
handler_read ==
  /\ pc["handler"] = "read"
  /\ LET r == loc["handler"].run_id
         path == abspath(output_ply_name_of(r))
     IN  \/ /\ files["handler"][r] # NoFile
            /\ calls' = [calls EXCEPT !["handler"] =
                           Append(@, Call("open.read", path, "", files["handler"][r]))]
            /\ loc' = [loc EXCEPT !["handler"].ply_content = files["handler"][r],
                                  !["handler"].ply_base64 = b64encode(files["handler"][r])]
            /\ pc' = [pc EXCEPT !["handler"] = "cleanup"]
         \/ /\ calls' = [calls EXCEPT !["handler"] =
                           Append(@, Call("open.read", path, "OSError", NoFile))]
            /\ loc' = [loc EXCEPT !["handler"].exc = "OSError"]
            /\ pc' = [pc EXCEPT !["handler"] = "except"]
  /\ UNCHANGED << program, model, Inference, job, ret, files, uuid_count, constructed, load_failed >>

\* fault variant of the success result: the file name is left out
handler_result_without_filename(ply_base64, output_ply_name) ==
  Returned([ply |-> ply_base64])

\* lines 138-141: the success result
handler_result(ply_base64, output_ply_name) ==
  Returned([ply |-> ply_base64, filename |-> output_ply_name])

\* lines 135-141: remove the file if it exists, then return the result
handler_cleanup ==
  /\ pc["handler"] = "cleanup"
  /\ LET r == loc["handler"].run_id
         path == abspath(output_ply_name_of(r))
     IN  IF files["handler"][r] # NoFile
           THEN \/ /\ files' = [files EXCEPT !["handler"][r] = NoFile]
                   /\ calls' = [calls EXCEPT !["handler"] =
                                  Append(@, Call("os.remove", path, "", NoFile))]
                   /\ ret' = [ret EXCEPT !["handler"] =
                                handler_result(loc["handler"].ply_base64, output_ply_name_of(r))]
                   /\ pc' = [pc EXCEPT !["handler"] = "done"]
                   /\ UNCHANGED loc
                \/ /\ calls' = [calls EXCEPT !["handler"] =
                                  Append(@, Call("os.remove", path, "OSError", NoFile))]
                   /\ loc' = [loc EXCEPT !["handler"].exc = "OSError"]
                   /\ pc' = [pc EXCEPT !["handler"] = "except"]
                   /\ UNCHANGED << files, ret >>
           ELSE /\ ret' = [ret EXCEPT !["handler"] =
                             handler_result(loc["handler"].ply_base64, output_ply_name_of(r))]
                /\ pc' = [pc EXCEPT !["handler"] = "done"]
                /\ UNCHANGED << files, calls, loc >>
  /\ UNCHANGED << program, model, Inference, job, uuid_count, constructed, load_failed >>

\* lines 143-146: except Exception as e: return {"error": str(e)}
handler_except_result(e) == Returned([error |-> e])

handler_except ==
  /\ pc["handler"] = "except"
  /\ ret' = [ret EXCEPT !["handler"] = handler_except_result(loc["handler"].exc)]
  /\ pc' = [pc EXCEPT !["handler"] = "done"]
  /\ UNCHANGED << program, model, Inference, job, loc, calls, files, uuid_count, constructed, load_failed >>

\* ----------------------------------------------------------------- app.py
\* fault variant of load_model: a failed construction is remembered in the
\* global, so that later requests do not try again
app_load_model_caching_failure(m, inf, n) ==
  IF m # None
    THEN { [exc |-> "", ctor |-> "no", model |-> m, value |-> m] }
  ELSE IF ~inf
    THEN { [exc |-> "ImportError", ctor |-> "no", model |-> m, value |-> None] }
  ELSE { [exc |-> "FileNotFoundError", ctor |-> "no", model |-> m, value |-> None],
         [exc |-> "RuntimeError", ctor |-> "raise", model |-> n + 1, value |-> None],
         [exc |-> "", ctor |-> "ok", model |-> n + 1, value |-> n + 1] }

\* load_model() of app.py, lines 68-90
app_load_model_outcomes(m, inf, n) ==
  IF m # None
    THEN { [exc |-> "", ctor |-> "no", model |-> m, value |-> m] }
  ELSE IF ~inf
    THEN { [exc |-> "ImportError", ctor |-> "no", model |-> m, value |-> None] }
  ELSE { [exc |-> "FileNotFoundError", ctor |-> "no", model |-> m, value |-> None],
         [exc |-> "RuntimeError", ctor |-> "raise", model |-> m, value |-> None],
         [exc |-> "", ctor |-> "ok", model |-> n + 1, value |-> n + 1] }

\* lines 132 and 96: the values process returns
app_result(output_ply_path) == Returned(<< output_ply_path, output_ply_path >>)
app_none_result == Returned(<< NonePath, NonePath >>)

\* line 95: input_image is None
app_is_none(img) == img = NoneImage

\* process(input_image), lines 94-96
app_entry(img) ==
  /\ Accepting("app")
  /\ loc' = [loc EXCEPT !["app"] = [NoLocals EXCEPT !.input_image = img]]
  /\ calls' = [calls EXCEPT !["app"] = <<>>]
  /\ IF app_is_none(img)
       THEN /\ ret' = [ret EXCEPT !["app"] = app_none_result]
            /\ pc' = [pc EXCEPT !["app"] = "done"]
       ELSE /\ ret' = [ret EXCEPT !["app"] = NoResult]
            /\ pc' = [pc EXCEPT !["app"] = "load"]
  /\ UNCHANGED << program, model, Inference, job, files, uuid_count, constructed, load_failed >>

\* line 99: current_model = load_model()
app_load_model ==
  /\ pc["app"] = "load"
  /\ \E o \in app_load_model_outcomes(model["app"], Inference["app"], constructed["app"]) :
       /\ calls' = [calls EXCEPT !["app"] = @ \o LoadLog(model["app"], o)]
       /\ model' = [model EXCEPT !["app"] = o.model]
       /\ constructed' = [constructed EXCEPT !["app"] = IF o.ctor = "ok" THEN @ + 1 ELSE @]
       /\ load_failed' = [load_failed EXCEPT !["app"] = @ \/ o.exc # ""]
       /\ IF o.exc = ""
            THEN /\ loc' = [loc EXCEPT !["app"].current_model = o.value]
                 /\ pc' = [pc EXCEPT !["app"] = "uuid"]
            ELSE /\ loc' = [loc EXCEPT !["app"].exc = o.exc]
                 /\ pc' = [pc EXCEPT !["app"] = "except"]
  /\ UNCHANGED << program, Inference, job, ret, files, uuid_count >>

\* line 102: run_id = str(uuid.uuid4())
app_uuid ==
  /\ pc["app"] = "uuid"
  /\ LET r == uuid_count["app"] + 1
     IN  /\ uuid_count' = [uuid_count EXCEPT !["app"] = r]
         /\ calls' = [calls EXCEPT !["app"] = Append(@, Call("uuid4", <<>>, "", r))]
         /\ loc' = [loc EXCEPT !["app"].run_id = r]
  /\ pc' = [pc EXCEPT !["app"] = "convert"]
  /\ UNCHANGED << program, model, Inference, job, ret, files, constructed, load_failed >>

\* fault variant of the mode test: every image is converted
app_always_convert(img) == TRUE

\* lines 106-111
app_needs_convert(img) == img.mode # "RGB"

app_convert ==
  /\ pc["app"] = "convert"
  /\ LET img == loc["app"].input_image
     IN  IF app_needs_convert(img)
           THEN \/ /\ calls' = [calls EXCEPT !["app"] =
                                  Append(@, Call("convert", <<img, "RGB">>, "", convert_RGB(img)))]
                   /\ loc' = [loc EXCEPT !["app"].input_image_rgb = convert_RGB(img),
                                         !["app"].image_np = to_uint8_array(convert_RGB(img))]
                   /\ pc' = [pc EXCEPT !["app"] = "rembg"]
                \/ /\ calls' = [calls EXCEPT !["app"] =
                                  Append(@, Call("convert", <<img, "RGB">>, "OSError", NoneImage))]
                   /\ loc' = [loc EXCEPT !["app"].exc = "OSError"]
                   /\ pc' = [pc EXCEPT !["app"] = "except"]
           ELSE /\ loc' = [loc EXCEPT !["app"].input_image_rgb = img,
                                      !["app"].image_np = to_uint8_array(img)]
                /\ pc' = [pc EXCEPT !["app"] = "rembg"]
                /\ UNCHANGED calls
  /\ UNCHANGED << program, model, Inference, job, ret, files, uuid_count, constructed, load_failed >>

\* lines 116-118
app_rembg ==
  /\ pc["app"] = "rembg"
  /\ LET img == loc["app"].input_image_rgb
     IN  \/ \E a \in Alphas :
              LET out == [mode |-> "RGBA", rgb |-> img.rgb, a |-> a]
              IN  /\ calls' = [calls EXCEPT !["app"] =
                                 Append(@, Call("rembg.remove", img, "", out))]
                  /\ loc' = [loc EXCEPT !["app"].mask_np = mask_of(out)]
                  /\ pc' = [pc EXCEPT !["app"] = "infer"]
         \/ /\ calls' = [calls EXCEPT !["app"] =
                           Append(@, Call("rembg.remove", img, "RuntimeError", NoneImage))]
            /\ loc' = [loc EXCEPT !["app"].exc = "RuntimeError"]
            /\ pc' = [pc EXCEPT !["app"] = "except"]
  /\ UNCHANGED << program, model, Inference, job, ret, files, uuid_count, constructed, load_failed >>

\* line 123: output = current_model(image_np, mask_np, seed=42)
app_seed == 42

app_model_args(l) ==
  [model |-> l.current_model, image |-> l.image_np, mask |-> l.mask_np, seed |-> app_seed]

app_infer ==
  /\ pc["app"] = "infer"
  /\ LET args == app_model_args(loc["app"])
     IN  \/ /\ calls' = [calls EXCEPT !["app"] = Append(@, Call("model", args, "", 1))]
            /\ loc' = [loc EXCEPT !["app"].output = 1]
            /\ pc' = [pc EXCEPT !["app"] = "save"]
         \/ /\ calls' = [calls EXCEPT !["app"] =
                           Append(@, Call("model", args, "RuntimeError", 0))]
            /\ loc' = [loc EXCEPT !["app"].exc = "RuntimeError"]
            /\ pc' = [pc EXCEPT !["app"] = "except"]
  /\ UNCHANGED << program, model, Inference, job, ret, files, uuid_count, constructed, load_failed >>

\* lines 126-132: save_ply, then return the path twice
app_save ==
  /\ pc["app"] = "save"
  /\ LET r == loc["app"].run_id
         path == abspath(output_ply_name_of(r))
     IN  \/ \E content \in PlyPayloads :
              /\ files' = [files EXCEPT !["app"][r] = content]
              /\ calls' = [calls EXCEPT !["app"] =
                             Append(@, Call("save_ply", path, "", content))]
              /\ ret' = [ret EXCEPT !["app"] = app_result(path)]
              /\ pc' = [pc EXCEPT !["app"] = "done"]
              /\ UNCHANGED loc
         \/ /\ calls' = [calls EXCEPT !["app"] =
                           Append(@, Call("save_ply", path, "OSError", NoFile))]
            /\ loc' = [loc EXCEPT !["app"].exc = "OSError"]
            /\ pc' = [pc EXCEPT !["app"] = "except"]
            /\ UNCHANGED << files, ret >>
         \/ /\ files' = [files EXCEPT !["app"][r] = <<>>]
            /\ calls' = [calls EXCEPT !["app"] =
                           Append(@, Call("save_ply", path, "OSError", <<>>))]
            /\ loc' = [loc EXCEPT !["app"].exc = "OSError"]
            /\ pc' = [pc EXCEPT !["app"] = "except"]
            /\ UNCHANGED ret
  /\ UNCHANGED << program, model, Inference, job, uuid_count, constructed, load_failed >>

\* fault variant of the except clause: the exception is raised again as it is
app_except_reraise(e) == Raised(e)

\* lines 134-137: except Exception as e: raise gr.Error(...)
app_except_result(e) == Raised("gr.Error")

app_except ==
  /\ pc["app"] = "except"
  /\ ret' = [ret EXCEPT !["app"] = app_except_result(loc["app"].exc)]
  /\ pc' = [pc EXCEPT !["app"] = "done"]
  /\ UNCHANGED << program, model, Inference, job, loc, calls, files, uuid_count, constructed, load_failed >>

\* ------------------------------------------------------------ specification
Next ==
  \/ \E j \in Jobs : handler_entry(j)
  \/ handler_load_model
  \/ handler_decode
  \/ handler_open
  \/ handler_uuid
  \/ handler_convert
  \/ handler_rembg
  \/ handler_infer
  \/ handler_save
  \/ handler_read
  \/ handler_cleanup
  \/ handler_except
  \/ \E img \in Images \cup {NoneImage} : app_entry(img)
  \/ app_load_model
  \/ app_uuid
  \/ app_convert
  \/ app_rembg
  \/ app_infer
  \/ app_save
  \/ app_except

Spec == Init /\ [][Next]_vars

\* the two front-ends side by side, for comparing their requests
InitPair ==
  /\ program = "pair"
  /\ model = [l \in Lanes |-> None]
  /\ Inference \in [Lanes -> BOOLEAN]
  /\ pc = [l \in Lanes |-> "idle"]
  /\ job = NoJob
  /\ loc = [l \in Lanes |-> NoLocals]
  /\ ret = [l \in Lanes |-> NoResult]
  /\ calls = [l \in Lanes |-> <<>>]
  /\ files = [l \in Lanes |-> [r \in RunIds |-> NoFile]]
  /\ uuid_count = [l \in Lanes |-> 0]
  /\ constructed = [l \in Lanes |-> 0]
  /\ load_failed = [l \in Lanes |-> FALSE]

SpecPair == InitPair /\ [][Next]_vars


\* ------------------------------------------------------------------ claims
Count(log, fn) == Len(SelectSeq(log, LAMBDA e : e.fn = fn))

Failed(log) == \E i \in 1..Len(log) : log[i].exc # ""

HandlerSucceeded ==
  /\ pc["handler"] = "done"
  /\ ret["handler"].kind = "return"
  /\ "ply" \in DOMAIN ret["handler"].val

AppSucceeded ==
  /\ pc["app"] = "done"
  /\ ret["app"].kind = "return"
  /\ ret["app"].val # << NonePath, NonePath >>

Succeeded(l) == IF l = "handler" THEN HandlerSucceeded ELSE AppSucceeded

\* C1: a value returned by handler is a dict with exactly the keys "ply" and
\* "filename", or a dict with exactly the key "error".
C1_ReturnShape ==
  ret["handler"].kind = "return" =>
    DOMAIN ret["handler"].val \in { {"ply", "filename"}, {"error"} }

C1_Witness ==
  /\ pc["handler"] = "done"
  /\ ret["handler"].kind = "return"
  /\ DOMAIN ret["handler"].val = {"ply", "filename"}
  /\ Len(ret["handler"].val.ply) > 0

\* C2: whatever the job object and whichever step fails, handler returns an
\* {"error": ...} dict and no exception propagates out of handler.
C2_NoExceptionEscapes ==
  pc["handler"] = "done" =>
    /\ ret["handler"].kind = "return"
    /\ Failed(calls["handler"]) => DOMAIN ret["handler"].val = {"error"}

\* C3: for a non-None image the only exception that leaves process is
\* gr.Error, and a request in which a step failed returns no (path, path).
C3_OnlyGrError ==
  pc["app"] = "done" =>
    /\ ret["app"].kind = "raise" => ret["app"].exc = "gr.Error"
    /\ Failed(calls["app"]) => ret["app"] = Raised("gr.Error")

C3_Witness ==
  /\ pc["app"] = "done"
  /\ Len(calls["app"]) > 0
  /\ calls["app"][Len(calls["app"])].fn = "model"
  /\ calls["app"][Len(calls["app"])].exc # ""
  /\ ret["app"] = Raised("gr.Error")

\* C4: the model is loaded lazily and at most once per process: `model`
\* changes only in a load_model call, Inference(...) completes at most once,
\* and once `model` is set it is never reassigned: a later load_model call
\* returns the same object without constructing again.
C4_LoadedAtMostOnce ==
  [][ \A l \in Lanes :
        /\ constructed'[l] <= 1
        /\ model'[l] # model[l] => pc[l] = "load" /\ model[l] = None
        /\ model[l] # None => model'[l] = model[l] /\ constructed'[l] = constructed[l]
        /\ (pc[l] = "load" /\ model[l] # None) =>
             /\ pc'[l] # "except"
             /\ loc'[l].current_model = model[l] ]_vars

C4_Witness ==
  \E l \in Lanes :
    /\ Len(calls[l]) > 0
    /\ calls[l][1].fn = "load_model"
    /\ calls[l][1].arg # << None >>
    /\ loc[l].current_model = model[l]
    /\ constructed[l] = 1
    /\ Succeeded(l)

\* C5: given the same global model and the same decoded image, process and
\* handler make the same calls to the shared collaborators with the same
\* arguments for as long as the collaborators answer alike, and they leave
\* the global model in the same state.
SharedFns == {"load_model", "uuid4", "convert", "rembg.remove", "model", "save_ply"}

SharedCalls(l) == SelectSeq(calls[l], LAMBDA e : e.fn \in SharedFns)

SameCall(a, b) == a.fn = b.fn /\ a.arg = b.arg

SameOutcome(a, b) == a.fn = b.fn /\ a.exc = b.exc /\ a.out = b.out

Comparable ==
  /\ loc["app"].input_image # NoneImage
  /\ loc["app"].input_image = loc["handler"].input_image
  /\ Len(SharedCalls("app")) > 0
  /\ Len(SharedCalls("handler")) > 0
  /\ SharedCalls("app")[1].arg = SharedCalls("handler")[1].arg

AnsweredAlike(A, H, n) == \A j \in 1..n : SameOutcome(A[j], H[j])

C5_SameCalls ==
  LET A == SharedCalls("app")
      H == SharedCalls("handler")
      n == IF Len(A) < Len(H) THEN Len(A) ELSE Len(H)
  IN  Comparable =>
        /\ \A i \in 1..n : AnsweredAlike(A, H, i - 1) => SameCall(A[i], H[i])
        /\ (pc["app"] = "done" /\ pc["handler"] = "done" /\ AnsweredAlike(A, H, n)) =>
             /\ Len(A) = Len(H)
             /\ model["app"] = model["handler"]

C5_Witness ==
  LET A == SharedCalls("app")
      H == SharedCalls("handler")
  IN  /\ Comparable
      /\ loc["app"].input_image.mode = "RGBA"
      /\ AppSucceeded
      /\ HandlerSucceeded
      /\ Len(A) = 6
      /\ Len(H) = 6
      /\ AnsweredAlike(A, H, 6)

\* C6: within one request the model is called at most once, with seed 42,
\* after load_model returned and after rembg.remove produced the mask;
\* save_ply is called only after the model call returned; a request that
\* returns a success result made exactly one model call and one save_ply call.
C6_SingleModelCall ==
  \A l \in Lanes :
    LET log == calls[l]
    IN  /\ Count(log, "model") <= 1
        /\ Count(log, "save_ply") <= 1
        /\ \A i \in 1..Len(log) :
             log[i].fn = "model" =>
               /\ log[i].arg.seed = 42
               /\ \E j \in 1..(i - 1) :
                    /\ log[j].fn = "load_model" /\ log[j].exc = ""
                    /\ log[j].out = log[i].arg.model
               /\ \E j \in 1..(i - 1) :
                    /\ log[j].fn = "rembg.remove" /\ log[j].exc = ""
                    /\ log[i].arg.mask = << log[j].out.a > 0 >>
        /\ \A i \in 1..Len(log) :
             log[i].fn = "save_ply" =>
               \E j \in 1..(i - 1) : log[j].fn = "model" /\ log[j].exc = ""
        /\ Succeeded(l) => Count(log, "model") = 1 /\ Count(log, "save_ply") = 1

C6_Witness ==
  \E l \in Lanes :
    /\ Succeeded(l)
    /\ Count(calls[l], "model") = 1
    /\ Count(calls[l], "save_ply") = 1
    /\ Count(calls[l], "convert") = 1

\* C7: on a successful handler request "filename" is the name of the path
\* passed to save_ply, and base64-decoding "ply" yields the bytes the file
\* held when save_ply returned.
SavedBy(log) == log[CHOOSE i \in 1..Len(log) : log[i].fn = "save_ply"]

C7_ResponseDescribesFile ==
  HandlerSucceeded =>
    /\ Count(calls["handler"], "save_ply") = 1
    /\ ret["handler"].val.filename = SavedBy(calls["handler"]).arg.name
    /\ SavedBy(calls["handler"]).exc = ""
    /\ B64WellFormed(ret["handler"].val.ply)
    /\ b64decode(ret["handler"].val.ply) = SavedBy(calls["handler"]).out

C7_Witness ==
  /\ HandlerSucceeded
  /\ Len(SavedBy(calls["handler"]).out) = 2
  /\ Len(ret["handler"].val.ply) = 4
  /\ ret["handler"].val.filename = output_ply_name_of(2)

\* C8: a handler job whose input has no 'image' and a UI call with None are
\* answered at once ({"error": ...}, resp. (None, None)): load_model is not
\* called, the global model is unchanged, no collaborator is invoked and no
\* file is created.
NoImageJob(j) == j.has_input /\ j.input.kind \in {"dict", "str"} /\ ~j.input.has_image

FrameUntouched(l) ==
  /\ pc'[l] = "done"
  /\ calls'[l] = <<>>
  /\ model' = model
  /\ files' = files
  /\ constructed' = constructed
  /\ uuid_count' = uuid_count
  /\ load_failed' = load_failed

C8_ValidationBeforeLoad ==
  [][ /\ (\E j \in Jobs : NoImageJob(j) /\ handler_entry(j)) =>
           /\ FrameUntouched("handler")
           /\ ret'["handler"].kind = "return"
           /\ DOMAIN ret'["handler"].val = {"error"}
      /\ app_entry(NoneImage) =>
           /\ FrameUntouched("app")
           /\ ret'["app"] = Returned(<< NonePath, NonePath >>) ]_vars

C8_Witness ==
  /\ pc["handler"] = "done"
  /\ NoImageJob(job)
  /\ calls["handler"] = <<>>
  /\ ret["handler"].kind = "return"
  /\ model["handler"] # None

\* C9: whenever handler returns, with a success or an error result, no
\* output file written by a handler request remains on disk.
C9_NoOutputFileRemains ==
  pc["handler"] = "done" => \A r \in RunIds : files["handler"][r] = NoFile

\* C10: a failed model load is not cached and not retried inside the
\* request: the global model stays None, the request ends with an error
\* after that single load_model call, calling neither rembg nor the model,
\* and the next request that reaches load_model tries to load again.
C10_FailedLoadNotCached ==
  [][ \A l \in Lanes :
        /\ (pc[l] = "load" /\ pc'[l] = "except") =>
             /\ model[l] = None
             /\ model'[l] = None
             /\ calls'[l][1].exc # ""
        /\ (calls'[l] # <<>> /\ calls'[l][1].exc # "") =>
             /\ Len(calls'[l]) = 1
             /\ calls'[l][1].fn = "load_model"
             /\ pc'[l] \in {"except", "done"}
             /\ pc'[l] = "done" =>
                  IF l = "handler"
                    THEN ret'[l].kind = "return" /\ DOMAIN ret'[l].val = {"error"}
                    ELSE ret'[l] = Raised("gr.Error")
        /\ (pc[l] = "load" /\ model[l] = None /\ load_failed[l]) =>
             /\ Len(calls'[l]) = 1
             /\ calls'[l][1].fn = "load_model"
             /\ calls'[l][1].arg = << None >> ]_vars

C10_Witness ==
  \E l \in Lanes :
    /\ load_failed[l]
    /\ model[l] # None
    /\ Succeeded(l)

====
